---- MODULE Spec2Model ----
(***************************************************************************)
(* Model of src/fetch_latest_deals.py: the CRM aggregation pipeline        *)
(* (main -> search pagination -> owner listing -> per-deal associations -> *)
(* bulk reads -> row projection -> CSV).                                   *)
(*                                                                         *)
(* Python strings are sequences of one-character strings, so that          *)
(* concatenation, strip() and truthiness ("" is falsy) are computed.       *)
(* Every HTTP exchange is one step: the request is appended to `requests`  *)
(* and the server's answer is drawn from a small set with \E.              *)
(***************************************************************************)
EXTENDS Integers, Sequences, FiniteSets, TLC

\* ------------------------------------------------------------------ bounds
MaxDeals == 2      \* deals the server returns over a whole run
MaxPages == 3      \* pages of one cursor-driven listing
MaxLimit == 1      \* largest --limit tried
MaxIdList == 3     \* length of the short identifier lists handed to a bulk read

\* ------------------------------------------------------- program constants
page_limit == 100
chunk_size == 100
EXIT_CONFIG == 2
EXIT_FAILURE == 1
EXIT_OK == 0

\* --------------------------------------------------------- string helpers
None == <<"None">>                \* Python None (no one-character string)
Truthy(s) == s # None /\ s # <<>>
OrEmpty(s) == IF Truthy(s) THEN s ELSE <<>>      \* `x or ""`

IsSpace(c) == c \in {" ", "\t", "\n", "\r"}

RECURSIVE LStrip(_)
LStrip(s) == IF s # <<>> /\ IsSpace(Head(s)) THEN LStrip(Tail(s)) ELSE s

RECURSIVE RStrip(_)
RStrip(s) ==
    IF s # <<>> /\ IsSpace(s[Len(s)]) THEN RStrip(SubSeq(s, 1, Len(s) - 1)) ELSE s

Strip(s) == RStrip(LStrip(s))

\* (variant: the email is preferred to the name)
DisplayName_EmailFirst(first, last, email, fallback) ==
    LET full == Strip(first \o <<" ">> \o last)
    IN  IF Truthy(email) THEN email
        ELSE IF full # <<>> THEN full
        ELSE fallback

\* (f"{first} {last}".strip()) or email or fallback
DisplayName(first, last, email, fallback) ==
    LET full == Strip(first \o <<" ">> \o last)
    IN  IF full # <<>> THEN full
        ELSE IF Truthy(email) THEN email
        ELSE fallback

\* dict helpers
EmptyDict == <<>>
Put(m, k, v) == [x \in (DOMAIN m) \cup {k} |-> IF x = k THEN v ELSE m[x]]
Get(m, k, default) == IF k \in DOMAIN m THEN m[k] ELSE default

SeqsUpTo(S, n) == UNION {[1..k -> S] : k \in 0..n}

\* ------------------------------------------------------ safe_format_date
DigitChars == <<"0", "1", "2", "3", "4", "5", "6", "7", "8", "9">>
IsDigit(c) == \E i \in 1..10 : DigitChars[i] = c
DigitVal(c) == (CHOOSE i \in 1..10 : DigitChars[i] = c) - 1
Pad2(n) == <<DigitChars[(n \div 10) + 1], DigitChars[(n % 10) + 1]>>

\* strptime compiles its format with re.IGNORECASE
Lower(c) == IF c = "T" THEN "t" ELSE IF c = "Z" THEN "z" ELSE c

RECURSIVE NumVal(_)
NumVal(ds) ==
    IF ds = <<>> THEN 0 ELSE 10 * NumVal(SubSeq(ds, 1, Len(ds) - 1)) + DigitVal(ds[Len(ds)])

AllDigits(ds) == \A i \in 1..Len(ds) : IsDigit(ds[i])

\* the text a directive consumes at position p: a run of digits of the
\* directive's width (%d also takes a blank followed by one digit)
FieldLen(tok, s, p) ==
    LET dig(q) == q <= Len(s) /\ IsDigit(s[q])
    IN  CASE tok = "Y" -> 4
          [] tok = "f" -> IF ~dig(p) THEN 0
                          ELSE (CHOOSE n \in 1..6 :
                                   /\ \A q \in p..(p + n - 1) : dig(q)
                                   /\ (n = 6 \/ ~dig(p + n)))
          [] tok = "d" /\ p <= Len(s) /\ s[p] = " " -> 2
          [] OTHER -> IF dig(p) /\ dig(p + 1) THEN 2 ELSE 1

\* whether the text matches the directive's regular expression
FieldOk(tok, txt) ==
    LET n == Len(txt)
        v == NumVal(txt)
    IN  CASE tok = "Y" -> n = 4 /\ AllDigits(txt)
          [] tok = "f" -> n \in 1..6 /\ AllDigits(txt)
          [] tok = "d" /\ n = 2 /\ txt[1] = " " -> IsDigit(txt[2]) /\ txt[2] # "0"
          [] OTHER ->
                /\ n \in 1..2
                /\ AllDigits(txt)
                /\ CASE tok = "m" -> v \in 1..12
                     [] tok = "d" -> v \in 1..31
                     [] tok = "H" -> v \in 0..23
                     [] tok = "M" -> v \in 0..59
                     [] tok = "S" -> v \in 0..61
                     [] OTHER -> FALSE

IsDirective(tok) == tok \in {"Y", "m", "d", "H", "M", "S", "f"}

FieldVal(tok, txt) == IF txt[1] = " " THEN DigitVal(txt[2]) ELSE NumVal(txt)

\* match format `toks` against s from position p; the result maps each
\* directive to its value; ok is FALSE when the match fails or text remains
NoMatch == [ok |-> FALSE]
RECURSIVE Match(_, _, _, _)
Match(toks, s, p, acc) ==
    IF toks = <<>> THEN (IF p = Len(s) + 1 THEN acc ELSE NoMatch)
    ELSE LET tok == Head(toks)
         IN  IF IsDirective(tok)
             THEN LET n == FieldLen(tok, s, p)
                      txt == IF p + n - 1 <= Len(s) THEN SubSeq(s, p, p + n - 1) ELSE <<>>
                  IN  IF n > 0 /\ Len(txt) = n /\ FieldOk(tok, txt)
                      THEN Match(Tail(toks), s, p + n, Put(acc, tok, FieldVal(tok, txt)))
                      ELSE NoMatch
             ELSE IF p <= Len(s) /\ Lower(s[p]) = Lower(tok)
                  THEN Match(Tail(toks), s, p + 1, acc)
                  ELSE NoMatch

IsLeap(y) == y % 4 = 0 /\ (y % 100 # 0 \/ y % 400 = 0)
DaysInMonth(y, m) ==
    IF m = 2 THEN (IF IsLeap(y) THEN 29 ELSE 28)
    ELSE IF m \in {4, 6, 9, 11} THEN 30 ELSE 31

\* datetime.strptime(iso_str, fmt): the parsed fields; ok is FALSE for ValueError
Strptime(s, toks) ==
    LET r == Match(toks, s, 1, [ok |-> TRUE])
    IN  IF ~r.ok THEN NoMatch
        ELSE IF r["Y"] >= 1 /\ r["d"] <= DaysInMonth(r["Y"], r["m"]) /\ r["S"] <= 59
             THEN r ELSE NoMatch

FMT_FRACTION == <<"Y", "-", "m", "-", "d", "T", "H", ":", "M", ":", "S", ".", "f", "Z">>
FMT_SECONDS == <<"Y", "-", "m", "-", "d", "T", "H", ":", "M", ":", "S", "Z">>

\* dt.date().isoformat()
IsoDate(r) ==
    Pad2(r["Y"] \div 100) \o Pad2(r["Y"] % 100) \o <<"-">> \o Pad2(r["m"]) \o <<"-">> \o Pad2(r["d"])

\* (variant: only the format without sub-second digits is tried)
safe_format_date_SecondsOnly(iso_str) ==
    IF ~Truthy(iso_str) THEN <<>>
    ELSE LET b == Strptime(iso_str, FMT_SECONDS)
         IN  IF b.ok THEN IsoDate(b) ELSE iso_str

safe_format_date(iso_str) ==
    IF ~Truthy(iso_str) THEN <<>>
    ELSE LET a == Strptime(iso_str, FMT_FRACTION)
         IN  IF a.ok THEN IsoDate(a)
             ELSE LET b == Strptime(iso_str, FMT_SECONDS)
                  IN  IF b.ok THEN IsoDate(b) ELSE iso_str

\* ------------------------------------------- what the server may answer
TS_FRACTION ==
    <<"2", "0", "2", "3", "-", "0", "7", "-", "0", "3", "T",
      "1", "7", ":", "4", "1", ":", "0", "4", ".", "1", "9", "3", "Z">>
TS_SECONDS ==
    <<"2", "0", "2", "4", "-", "0", "2", "-", "2", "9", "T",
      "0", "7", ":", "0", "5", ":", "5", "9", "Z">>
TS_OTHER == <<"n", "/", "a">>

\* Timestamps put together from parts, each part valid (ok) or not for the
\* position it fills; v is the number a part stands for and canon its
\* zero-padded form.
YearParts ==
    {[t |-> <<"2", "0", "2", "3">>, ok |-> TRUE, v |-> 2023],
     [t |-> <<"2", "0", "2", "4">>, ok |-> TRUE, v |-> 2024],
     [t |-> <<"0", "0", "0", "0">>, ok |-> FALSE, v |-> 0]}
MonthParts ==
    {[t |-> <<"0", "7">>, ok |-> TRUE, v |-> 7, canon |-> <<"0", "7">>],
     [t |-> <<"2">>, ok |-> TRUE, v |-> 2, canon |-> <<"0", "2">>],
     [t |-> <<"1", "3">>, ok |-> FALSE, v |-> 13, canon |-> <<"1", "3">>]}
DayParts ==
    {[t |-> <<"0", "3">>, ok |-> TRUE, v |-> 3, canon |-> <<"0", "3">>],
     [t |-> <<" ", "3">>, ok |-> TRUE, v |-> 3, canon |-> <<"0", "3">>],
     [t |-> <<"2", "9">>, ok |-> TRUE, v |-> 29, canon |-> <<"2", "9">>],
     [t |-> <<"3", "0">>, ok |-> TRUE, v |-> 30, canon |-> <<"3", "0">>],
     [t |-> <<"3", "2">>, ok |-> FALSE, v |-> 32, canon |-> <<"3", "2">>]}
SeparatorParts ==
    {[t |-> <<"T">>, ok |-> TRUE],
     [t |-> <<"t">>, ok |-> TRUE],
     [t |-> <<" ">>, ok |-> FALSE]}
TimeParts ==
    {[t |-> <<"1", "7", ":", "4", "1", ":", "0", "4">>, ok |-> TRUE],
     [t |-> <<"7", ":", "5", ":", "9">>, ok |-> TRUE],
     [t |-> <<"2", "4", ":", "0", "0", ":", "0", "0">>, ok |-> FALSE],
     [t |-> <<"2", "3", ":", "5", "9", ":", "6", "0">>, ok |-> FALSE]}
FractionParts ==
    {[t |-> <<>>, ok |-> TRUE],
     [t |-> <<".", "1", "9", "3">>, ok |-> TRUE],
     [t |-> <<".", "1", "2", "3", "4", "5", "6">>, ok |-> TRUE],
     [t |-> <<".", "1", "2", "3", "4", "5", "6", "7">>, ok |-> FALSE],
     [t |-> <<".">>, ok |-> FALSE]}
ZoneParts ==
    {[t |-> <<"Z">>, ok |-> TRUE],
     [t |-> <<"z">>, ok |-> TRUE],
     [t |-> <<>>, ok |-> FALSE],
     [t |-> <<"+", "0", "0", ":", "0", "0">>, ok |-> FALSE]}

DateParts ==
    {[y |-> y, m |-> m, d |-> d, sep |-> sep, time |-> time, fraction |-> fraction, zone |-> zone] :
        y \in YearParts, m \in MonthParts, d \in DayParts, sep \in SeparatorParts,
        time \in TimeParts, fraction \in FractionParts, zone \in ZoneParts}

PartsOf(c) == {c.y, c.m, c.d, c.sep, c.time, c.fraction, c.zone}

\* the number of days of the months the parts name
MonthLength(y, m) == IF m = 7 THEN 31 ELSE IF m = 2 THEN (IF y = 2024 THEN 29 ELSE 28) ELSE 0

DateText(c) ==
    c.y.t \o <<"-">> \o c.m.t \o <<"-">> \o c.d.t \o c.sep.t \o c.time.t \o c.fraction.t \o c.zone.t

\* a timestamp of the accepted form that names a day of the calendar
IsTimestamp(c) == (\A part \in PartsOf(c) : part.ok) /\ c.d.v <= MonthLength(c.y.v, c.m.v)

\* the texts with at most one invalid part, each with the date it names (or
\* the text itself when it is no timestamp)
DateCases ==
    {[text |-> DateText(c),
      date |-> IF IsTimestamp(c) THEN c.y.t \o <<"-">> \o c.m.canon \o <<"-">> \o c.d.canon
               ELSE DateText(c)] :
        c \in {c \in DateParts : Cardinality({part \in PartsOf(c) : ~part.ok}) <= 1}}
    \cup {[text |-> None, date |-> <<>>], [text |-> <<>>, date |-> <<>>],
          [text |-> TS_OTHER, date |-> TS_OTHER]}

DateInputs == {c.text : c \in DateCases}

\* a deal that carries the timestamp s
DateDeal(s) ==
    [id |-> <<"2">>,
     properties |-> [dealname |-> <<"C">>, amount |-> <<"9">>, dealstage |-> <<"w">>,
                     closedate |-> s, createdate |-> TS_SECONDS,
                     hubspot_owner_id |-> None]]

DealA ==
    [id |-> <<"1">>,
     properties |-> [dealname |-> <<"A">>, amount |-> <<"7">>, dealstage |-> <<"q">>,
                     closedate |-> TS_FRACTION, createdate |-> TS_SECONDS,
                     hubspot_owner_id |-> <<"3">>]]
DealB ==
    [id |-> <<"1">>,
     properties |-> [dealname |-> <<"B">>, amount |-> None, dealstage |-> <<"q">>,
                     closedate |-> None, createdate |-> TS_OTHER,
                     hubspot_owner_id |-> None]]
DealC ==
    [id |-> <<"2">>,
     properties |-> [dealname |-> <<"C">>, amount |-> <<"9">>, dealstage |-> <<"w">>,
                     closedate |-> TS_SECONDS, createdate |-> TS_FRACTION,
                     hubspot_owner_id |-> <<"3">>]]
ServerDeals == {DealA, DealB, DealC}

\* a search lists no record twice
NoRepeat(ds) == \A i, j \in 1..Len(ds) : ds[i] = ds[j] => i = j

OwnerJ ==
    [id |-> <<"3">>, firstName |-> <<"J">>, lastName |-> <<"D">>, email |-> <<"e">>,
     ownerId |-> None]
OwnerM ==
    [id |-> <<"4">>, firstName |-> None, lastName |-> None, email |-> <<"m">>,
     ownerId |-> <<"3">>]
OwnerN ==
    [id |-> <<"9">>, firstName |-> None, lastName |-> None, email |-> None,
     ownerId |-> None]
\* the k-th page of the owner directory
OwnerPages(k) == IF k = 1 THEN {<<>>, <<OwnerJ>>} ELSE {<<OwnerM, OwnerN>>, <<OwnerM, OwnerJ>>}

\* bodies of GET /crm/v3/owners/{id}
OwnerBodies ==
    {[firstName |-> <<"K">>, lastName |-> None, email |-> <<"k">>],
     [firstName |-> None, lastName |-> None, email |-> <<"k">>],
     [firstName |-> None, lastName |-> None, email |-> None]}

\* results of the association endpoint: "id" (v3) or "toObjectId" (legacy)
AssocResults(to_object) ==
    IF to_object = "contacts"
    THEN {<<>>, <<[id |-> <<"6">>], [id |-> <<"5">>]>>}
    ELSE {<<>>, <<[toObjectId |-> <<"8">>]>>}

\* the decimal text of a positive number
RECURSIVE Digits(_)
Digits(n) == (IF n >= 10 THEN Digits(n \div 10) ELSE <<>>) \o <<DigitChars[(n % 10) + 1]>>

\* n distinct identifiers
IdList(n) == [k \in 1..n |-> Digits(k)]

\* contact identifiers one deal may be associated with: short lists with
\* repeated and empty identifiers, and long lists around the multiples of
\* chunk_size (the last one with its first 50 identifiers repeated)
ContactIdLists ==
    SeqsUpTo({<<>>, <<"5">>, <<"6">>}, MaxIdList)
    \cup {IdList(n) : n \in {99, 100, 101, 200, 250}}
    \cup {IdList(250) \o IdList(50)}
CompanyIdLists == {<<>>, << <<"8">> >>}

EntityProps(object_type, x) ==
    IF object_type = "contacts"
    THEN (IF x = <<"5">>
          THEN [firstname |-> <<"P">>, lastname |-> <<"Q">>, email |-> <<"r">>]
          ELSE [firstname |-> None, lastname |-> None, email |-> <<"s">>])
    ELSE [name |-> <<"N">>, domain |-> <<"x">>]

\* the cursor the k-th page of a listing carries when more pages follow
SearchCursors == << <<"x">>, <<"y">>, <<"z">> >>
OwnerCursors == << <<"p">> >>

\* the shapes of the paging part of a listing response
AbsentShapes == {"no_paging", "paging_null", "no_next", "no_after"}
OtherShapes == {"after_null", "after_empty", "next_null"}
Pagings(cursors, k) ==
    {[shape |-> sh, after |-> None] : sh \in AbsentShapes \cup OtherShapes}
    \cup (IF k <= Len(cursors) THEN {[shape |-> "after", after |-> cursors[k]]} ELSE {})

Outcomes == {"ok", "http_error", "non_json", "transport"}

\* ------------------------------------------------------------------ state
VARIABLES
    pc,                     \* position in main() / build_csv_rows()
    token, limit,           \* args.token, args.limit
    deals,                  \* all_results, then deals
    after,                  \* cursor of the running listing loop
    owners,                 \* owner id -> display name
    idx,                    \* index of the deal a `for d in deals` loop is at
    contact_ids,            \* contact ids of the deal the association loop is at
    all_contact_ids, all_company_ids,
    deal_to_first_contact, deal_to_first_company,
    unique_ids, chunk_i, result,        \* locals of batch_read_objects
    contacts, companies,
    rows,
    requests,               \* every HTTP request issued, in order
    last,                   \* the latest HTTP response
    error,                  \* the exception that ended the run, or "none"
    exit_status,            \* <<>> while running, <<status>> once the process ended
    output                  \* what write_csv wrote

vars ==
    <<pc, token, limit, deals, after, owners, idx, contact_ids, all_contact_ids, all_company_ids,
      deal_to_first_contact, deal_to_first_company, unique_ids, chunk_i, result,
      contacts, companies, rows, requests, last, error, exit_status, output>>

NoResponse == [kind |-> "none", outcome |-> "none"]
NotWritten == [written |-> FALSE, rows |-> <<>>]

Init ==
    /\ pc = "main"
    /\ token \in {None, <<>>, <<"t">>}
    /\ limit \in -1..MaxLimit
    /\ deals = <<>>
    /\ after = None
    /\ owners = EmptyDict
    /\ idx = 1
    /\ contact_ids = <<>>
    /\ all_contact_ids = <<>>
    /\ all_company_ids = <<>>
    /\ deal_to_first_contact = EmptyDict
    /\ deal_to_first_company = EmptyDict
    /\ unique_ids = <<>>
    /\ chunk_i = 0
    /\ result = EmptyDict
    /\ contacts = EmptyDict
    /\ companies = EmptyDict
    /\ rows = <<>>
    /\ requests = <<>>
    /\ last = NoResponse
    /\ error = "none"
    /\ exit_status = <<>>
    /\ output = NotWritten

\* ------------------------------------------------------------ HTTP client
\* (variant: a body that is not JSON is read as an empty object)
HandleResponse_EmptyOnNonJson(outcome) ==
    CASE outcome = "ok" -> "none"
      [] outcome = "http_error" -> "SystemExit"
      [] outcome = "non_json" -> "none"
      [] outcome = "transport" -> "RequestException"

\* (variant: raise_for_status is not called, an error body is parsed as data)
HandleResponse_NoStatusCheck(outcome) ==
    CASE outcome = "ok" -> "none"
      [] outcome = "http_error" -> "none"
      [] outcome = "non_json" -> "SystemExit"
      [] outcome = "transport" -> "RequestException"

\* HubSpotClient.get / .post: a transport failure raises out of the session
\* call; otherwise _handle_response turns a non-2xx status or a non-JSON
\* body into SystemExit.  The exception raised, or "none".
HandleResponse(outcome) ==
    CASE outcome = "ok" -> "none"
      [] outcome = "http_error" -> "SystemExit"
      [] outcome = "non_json" -> "SystemExit"
      [] outcome = "transport" -> "RequestException"

\* an exception nothing catches ends the process
Abort(exc) ==
    /\ pc' = "aborted"
    /\ error' = exc
    /\ exit_status' = <<EXIT_FAILURE>>

Count(kind) == Cardinality({k \in 1..Len(requests) : requests[k].kind = kind})

\* Texts on the wire are sequences of symbols: a literal of the source is one
\* symbol, a value (identifier, cursor, token) contributes its characters.
HUBSPOT_BASE_URL == <<"https://api.hubapi.com">>

\* the session headers set in HubSpotClient.__init__, sent with every request
SessionHeaders(tok) ==
    [Authorization |-> <<"Bearer ">> \o tok,
     Accept |-> <<"application/json">>,
     ContentType |-> <<"application/json">>]

\* `sub in s` for texts
Contains(s, sub) ==
    \E i \in 1..(Len(s) - Len(sub) + 1) : SubSeq(s, i, i + Len(sub) - 1) = sub

RECURSIVE Flatten(_)
Flatten(seqs) == IF seqs = <<>> THEN <<>> ELSE Head(seqs) \o Flatten(Tail(seqs))

RequestMethod(r) == IF r.kind \in {"search", "batch"} THEN <<"POST">> ELSE <<"GET">>

\* the path each caller hands to client.get / client.post
RequestPath(r) ==
    CASE r.kind = "search" -> <<"/crm/v3/objects/deals/search">>
      [] r.kind = "owners" -> <<"/crm/v3/owners/">>
      [] r.kind = "owner" -> <<"/crm/v3/owners/">> \o r.owner_id
      [] r.kind = "assoc" ->
            <<"/crm/v3/objects/deals/">> \o r.deal_id \o <<"/associations/", r.to_object>>
      [] r.kind = "batch" -> <<"/crm/v3/objects/", r.object_type, "/batch/read">>

\* the query string made of `params`
RequestQuery(r) ==
    CASE r.kind = "owners" ->
            <<"?archived=false">> \o (IF r.after # None THEN <<"&after=">> \o r.after ELSE <<>>)
      [] r.kind = "owner" -> <<"?idProperty=HUBSPOT_OWNER_ID">>
      [] OTHER -> <<>>

\* (variant: the credential travels as the `hapikey` query parameter)
RequestUrl_TokenInQuery(r) ==
    HUBSPOT_BASE_URL \o RequestPath(r) \o RequestQuery(r) \o <<"?hapikey=">> \o token

\* response.url: f"{HUBSPOT_BASE_URL}{path}" with the query string
RequestUrl(r) == HUBSPOT_BASE_URL \o RequestPath(r) \o RequestQuery(r)

\* the `json=` body of the POST requests (the values that vary)
RequestJson(r) ==
    CASE r.kind = "search" ->
            <<"filterGroups", "sorts", "properties", "limit", ToString(r.limit)>>
            \o (IF r.after # None THEN <<"after">> \o r.after ELSE <<>>)
      [] r.kind = "batch" -> <<"properties", "inputs">> \o Flatten(r.inputs)
      [] OTHER -> <<>>

\* status code and text of the non-2xx responses the server may give
ErrorResponses ==
    {[status_code |-> <<"4", "0", "1">>, text |-> <<"{", "e", "r", "r", "}">>],
     [status_code |-> <<"5", "0", "0">>, text |-> <<>>]}

\* _handle_response: the message of the SystemExit raised on HTTPError
ErrorMessage(status_code, method, url, text) ==
    <<"HubSpot API error ">> \o status_code \o <<" for ">> \o method \o <<" ">> \o url
    \o <<": ">> \o text

NonJsonMessage == <<"Unexpected non-JSON response from HubSpot API">>

\* the messages the SystemExit that ended the run may carry
ExitMessages ==
    IF pc = "aborted" /\ error = "SystemExit" /\ requests # <<>>
    THEN IF last.outcome = "http_error"
         THEN {ErrorMessage(resp.status_code, RequestMethod(requests[Len(requests)]),
                            RequestUrl(requests[Len(requests)]), resp.text) :
                   resp \in ErrorResponses}
         ELSE {NonJsonMessage}
    ELSE {}

\* (variant: data["paging"]["next"]["after"], which raises on a missing key)
NextAfter_Subscript(paging) ==
    CASE paging.shape = "after" -> [raises |-> FALSE, value |-> paging.after]
      [] paging.shape = "after_empty" -> [raises |-> FALSE, value |-> <<>>]
      [] paging.shape = "after_null" -> [raises |-> FALSE, value |-> None]
      [] OTHER -> [raises |-> TRUE, value |-> None]

\* (data.get("paging", {}) or {}).get("next", {}).get("after")
NextAfter(paging) ==
    CASE paging.shape = "next_null" -> [raises |-> TRUE, value |-> None]
      [] paging.shape = "after_empty" -> [raises |-> FALSE, value |-> <<>>]
      [] paging.shape = "after" -> [raises |-> FALSE, value |-> paging.after]
      [] OTHER -> [raises |-> FALSE, value |-> None]

\* ------------------------------------------------------------------ main
\* (variant: only an unset token is missing, an empty one is accepted)
MissingToken_OnlyNone(tok) == tok = None

\* `if not args.token`
MissingToken(tok) == ~Truthy(tok)

\* (variant: the cap is ignored and the paginated retrieval always runs)
Mode_AlwaysAll(cap) == "search_all"

\* (variant: `if args.limit`, any non-zero cap selects the single request)
Mode_NonZeroIsBounded(cap) == IF cap # 0 THEN "search" ELSE "search_all"

\* `if args.limit and args.limit > 0`: the retrieval main() calls
Mode(cap) == IF cap # 0 /\ cap > 0 THEN "search" ELSE "search_all"

\* (variant: a new page is put in front of the pages already fetched)
Extend_Prepend(all_results, results) == results \o all_results

\* all_results.extend(results)
Extend(all_results, results) == all_results \o results

\* main(): argument check and client construction
CheckToken ==
    /\ pc = "main"
    /\ IF MissingToken(token)
       THEN /\ pc' = "exited"
            /\ exit_status' = <<EXIT_CONFIG>>
       ELSE /\ pc' = Mode(limit)
            /\ exit_status' = exit_status
    /\ UNCHANGED <<token, limit, deals, after, owners, idx, contact_ids, all_contact_ids,
                   all_company_ids, deal_to_first_contact, deal_to_first_company,
                   unique_ids, chunk_i, result, contacts, companies, rows, requests,
                   last, error, output>>

\* fetch_ytd_deals_excluding_closed: one request, limit = the cap
SearchBounded ==
    /\ pc = "search"
    /\ \E outcome \in Outcomes, results \in SeqsUpTo(ServerDeals, MaxDeals),
          paging \in Pagings(SearchCursors, 1) :
        /\ Len(results) <= limit
        /\ NoRepeat(results)
        /\ outcome # "ok" => (results = <<>> /\ paging.shape = "no_paging")
        /\ requests' = Append(requests, [kind |-> "search", limit |-> limit, after |-> None])
        /\ last' = [kind |-> "search", outcome |-> outcome, results |-> results, paging |-> paging]
        /\ IF HandleResponse(outcome) # "none"
           THEN /\ Abort(HandleResponse(outcome))
                /\ UNCHANGED deals
           ELSE /\ deals' = results
                /\ pc' = "owner_lookup"
                /\ UNCHANGED <<error, exit_status>>
    /\ UNCHANGED <<token, limit, after, owners, idx, contact_ids, all_contact_ids, all_company_ids,
                   deal_to_first_contact, deal_to_first_company, unique_ids, chunk_i,
                   result, contacts, companies, rows, output>>

\* (variant: the body never carries `after`)
SearchRequest_NoCursor(cursor) == [kind |-> "search", limit |-> page_limit, after |-> None]

\* fetch_ytd_deals_excluding_closed_all: the request body, "limit": page_limit
\* and `if after: body["after"] = after`
SearchRequest(cursor) ==
    [kind |-> "search", limit |-> page_limit,
     after |-> IF Truthy(cursor) THEN cursor ELSE None]

\* fetch_ytd_deals_excluding_closed_all: one iteration of `while True`
SearchPage ==
    /\ pc = "search_all"
    /\ \E outcome \in Outcomes, results \in SeqsUpTo(ServerDeals, MaxDeals),
          paging \in Pagings(SearchCursors, Count("search") + 1) :
        /\ Len(deals) + Len(results) <= MaxDeals
        /\ NoRepeat(deals \o results)
        /\ paging.shape = "after" => Count("search") + 1 < MaxPages
        /\ outcome # "ok" => (results = <<>> /\ paging.shape = "no_paging")
        /\ requests' = Append(requests, SearchRequest(after))
        /\ last' = [kind |-> "search", outcome |-> outcome, results |-> results, paging |-> paging]
        /\ IF HandleResponse(outcome) # "none"
           THEN /\ Abort(HandleResponse(outcome))
                /\ UNCHANGED <<deals, after>>
           ELSE /\ deals' = Extend(deals, results)
                /\ IF NextAfter(paging).raises
                   THEN /\ Abort("AttributeError")
                        /\ UNCHANGED after
                   ELSE IF Truthy(NextAfter(paging).value)
                   THEN /\ after' = NextAfter(paging).value
                        /\ UNCHANGED <<pc, error, exit_status>>
                   ELSE /\ after' = None
                        /\ pc' = "owner_lookup"
                        /\ UNCHANGED <<error, exit_status>>
    /\ UNCHANGED <<token, limit, owners, idx, contact_ids, all_contact_ids, all_company_ids,
                   deal_to_first_contact, deal_to_first_company, unique_ids, chunk_i,
                   result, contacts, companies, rows, output>>

\* ------------------------------------------------------- OwnerDirectory
\* fetch_owner_lookup: the body of `for item in data.get("results", [])`
RegisterOwner(m, item) ==
    LET owner_id == OrEmpty(item.id)
        name == DisplayName(OrEmpty(item.firstName), OrEmpty(item.lastName),
                            OrEmpty(item.email), owner_id)
        m1 == IF owner_id # <<>> THEN Put(m, owner_id, name) ELSE m
    IN  IF Truthy(item.ownerId) THEN Put(m1, item.ownerId, name) ELSE m1

RECURSIVE RegisterOwners(_, _)
RegisterOwners(m, items) ==
    IF items = <<>> THEN m
    ELSE RegisterOwners(RegisterOwner(m, Head(items)), Tail(items))

\* fetch_owner_lookup: one iteration of `while True`
OwnerPage ==
    /\ pc = "owner_lookup"
    /\ \E outcome \in Outcomes, results \in OwnerPages(Count("owners") + 1) \cup {<<>>},
          paging \in Pagings(OwnerCursors, Count("owners") + 1) :
        /\ outcome = "ok" => results \in OwnerPages(Count("owners") + 1)
        /\ outcome # "ok" => (results = <<>> /\ paging.shape = "no_paging")
        /\ requests' = Append(requests,
                              [kind |-> "owners",
                               after |-> IF Truthy(after) THEN after ELSE None])
        /\ last' = [kind |-> "owners", outcome |-> outcome, results |-> results, paging |-> paging]
        /\ IF HandleResponse(outcome) # "none"
           THEN /\ Abort(HandleResponse(outcome))
                /\ UNCHANGED <<owners, after>>
           ELSE /\ owners' = RegisterOwners(owners, results)
                /\ IF NextAfter(paging).raises
                   THEN /\ Abort("AttributeError")
                        /\ UNCHANGED after
                   ELSE IF Truthy(NextAfter(paging).value)
                   THEN /\ after' = NextAfter(paging).value
                        /\ UNCHANGED <<pc, error, exit_status>>
                   ELSE /\ after' = None
                        /\ pc' = "assoc_contacts"
                        /\ UNCHANGED <<error, exit_status>>
    /\ UNCHANGED <<token, limit, deals, idx, contact_ids, all_contact_ids, all_company_ids,
                   deal_to_first_contact, deal_to_first_company, unique_ids, chunk_i,
                   result, contacts, companies, rows, output>>

\* (variant: the cache is not consulted, every owner is looked up)
resolve_owner_name_NoCache(owner_id, m, outcome, body) ==
    IF ~Truthy(owner_id)
    THEN [name |-> <<>>, owners |-> m, called |-> FALSE, raises |-> "none"]
    ELSE IF HandleResponse(outcome) = "none"
    THEN LET name == DisplayName(OrEmpty(body.firstName), OrEmpty(body.lastName),
                                 OrEmpty(body.email), owner_id)
         IN  [name |-> name, owners |-> Put(m, owner_id, name), called |-> TRUE,
              raises |-> "none"]
    ELSE IF HandleResponse(outcome) = "SystemExit"
    THEN [name |-> owner_id, owners |-> m, called |-> TRUE, raises |-> "none"]
    ELSE [name |-> owner_id, owners |-> m, called |-> TRUE,
          raises |-> HandleResponse(outcome)]

\* resolve_owner_name, given the fallback response drawn for a cache miss:
\* the name returned, the cache afterwards, whether a request was issued and
\* the exception that escapes
resolve_owner_name(owner_id, m, outcome, body) ==
    IF ~Truthy(owner_id)
    THEN [name |-> <<>>, owners |-> m, called |-> FALSE, raises |-> "none"]
    ELSE IF owner_id \in DOMAIN m
    THEN [name |-> m[owner_id], owners |-> m, called |-> FALSE, raises |-> "none"]
    ELSE IF HandleResponse(outcome) = "none"
    THEN LET name == DisplayName(OrEmpty(body.firstName), OrEmpty(body.lastName),
                                 OrEmpty(body.email), owner_id)
         IN  [name |-> name, owners |-> Put(m, owner_id, name), called |-> TRUE,
              raises |-> "none"]
    ELSE IF HandleResponse(outcome) = "SystemExit"
    THEN [name |-> owner_id, owners |-> m, called |-> TRUE, raises |-> "none"]
    ELSE [name |-> owner_id, owners |-> m, called |-> TRUE,
          raises |-> HandleResponse(outcome)]

\* ---------------------------------------------------- AssociationResolver
\* fetch_association_ids: the ids of one response, in server order
RECURSIVE AssociationIds(_)
AssociationIds(results) ==
    IF results = <<>> THEN <<>>
    ELSE LET r == Head(results)
         IN  (IF "id" \in DOMAIN r THEN <<r.id>>
              ELSE IF "toObjectId" \in DOMAIN r THEN <<r.toObjectId>>
              ELSE <<>>) \o AssociationIds(Tail(results))

First(ids) == IF ids # <<>> THEN ids[1] ELSE None

\* (variant: both calls of a deal ask for its contacts)
AssocRequest_ContactsTwice(deal_id, to_object) ==
    [kind |-> "assoc", deal_id |-> deal_id, to_object |-> "contacts"]

\* fetch_association_ids(client, deal_id, to_object): the request it issues
AssocRequest(deal_id, to_object) ==
    [kind |-> "assoc", deal_id |-> deal_id, to_object |-> to_object]

\* build_csv_rows, `for d in deals`: the contacts call of deal idx
AssocContacts ==
    /\ pc = "assoc_contacts"
    /\ idx <= Len(deals)
    /\ \E outcome \in Outcomes, results \in AssocResults("contacts") :
        /\ outcome # "ok" => results = <<>>
        /\ requests' = Append(requests, AssocRequest(deals[idx].id, "contacts"))
        /\ last' = [kind |-> "assoc", outcome |-> outcome, results |-> results]
        /\ IF HandleResponse(outcome) # "none"
           THEN /\ Abort(HandleResponse(outcome))
                /\ UNCHANGED contact_ids
           ELSE /\ contact_ids' = AssociationIds(results)
                /\ pc' = "assoc_companies"
                /\ UNCHANGED <<error, exit_status>>
    /\ UNCHANGED <<token, limit, deals, after, owners, idx, all_contact_ids,
                   all_company_ids, deal_to_first_contact, deal_to_first_company,
                   unique_ids, chunk_i, result, contacts, companies, rows, output>>

\* build_csv_rows, `for d in deals`: the companies call of deal idx and the
\* rest of the loop body
AssocCompanies ==
    /\ pc = "assoc_companies"
    /\ \E outcome \in Outcomes, results \in AssocResults("companies") :
        /\ outcome # "ok" => results = <<>>
        /\ requests' = Append(requests, AssocRequest(deals[idx].id, "companies"))
        /\ last' = [kind |-> "assoc", outcome |-> outcome, results |-> results]
        /\ IF HandleResponse(outcome) # "none"
           THEN /\ Abort(HandleResponse(outcome))
                /\ UNCHANGED <<idx, contact_ids, all_contact_ids, all_company_ids,
                               deal_to_first_contact, deal_to_first_company>>
           ELSE LET company_ids == AssociationIds(results)
                    deal_id == deals[idx].id
                IN  /\ deal_to_first_contact' =
                           Put(deal_to_first_contact, deal_id, First(contact_ids))
                    /\ deal_to_first_company' =
                           Put(deal_to_first_company, deal_id, First(company_ids))
                    /\ all_contact_ids' = all_contact_ids \o contact_ids
                    /\ all_company_ids' = all_company_ids \o company_ids
                    /\ contact_ids' = <<>>
                    /\ idx' = idx + 1
                    /\ pc' = "assoc_contacts"
                    /\ UNCHANGED <<error, exit_status>>
    /\ UNCHANGED <<token, limit, deals, after, owners, unique_ids, chunk_i, result,
                   contacts, companies, rows, output>>

\* ------------------------------------------------------ BatchEntityLoader
\* (variant: the collected list is sent as it is)
Dedup_Identity(ids) == ids

\* list(dict.fromkeys(ids))
\* (a dict keeps a key at the position of its first insertion)
Dedup(ids) ==
    LET IsFirst(k) == \A j \in 1..(k - 1) : ids[j] # ids[k]
        kept == SelectSeq([k \in 1..Len(ids) |-> k], IsFirst)
    IN  [i \in 1..Len(kept) |-> ids[kept[i]]]

Min(a, b) == IF a < b THEN a ELSE b

\* (variant: the slice ends one element late)
Chunk_OneMore(ids, i) == SubSeq(ids, i + 1, Min(i + chunk_size + 1, Len(ids)))

\* unique_ids[i : i + chunk_size]
Chunk(ids, i) == SubSeq(ids, i + 1, Min(i + chunk_size, Len(ids)))

\* a bulk-read answer: the requested ids the server knows, in request order
BatchItems(object_type, chunk, present) ==
    LET IsPresent(x) == x \in present
        known == SelectSeq(chunk, IsPresent)
    IN  [i \in 1..Len(known) |->
            [id |-> known[i], properties |-> EntityProps(object_type, known[i])]]

\* the requested ids the server may know: all, none, the first only or all
\* but the first (every subset of a chunk of two)
PresentSets(chunk) ==
    LET ids == {chunk[k] : k \in 1..Len(chunk)}
    IN  {ids, {}, {chunk[1]}, ids \ {chunk[1]}}

\* for item in data.get("results", []): result[str(item.get("id"))] = ...
\* (a later item of the same id replaces an earlier one)
MergeItems(m, items) ==
    LET LastOf(x) == CHOOSE i \in 1..Len(items) :
                        items[i].id = x /\ \A j \in (i + 1)..Len(items) : items[j].id # x
    IN  [x \in (DOMAIN m) \cup {items[i].id : i \in 1..Len(items)} |->
            IF \E i \in 1..Len(items) : items[i].id = x
            THEN items[LastOf(x)].properties ELSE m[x]]

IdsOf(object_type) == IF object_type = "contacts" THEN all_contact_ids ELSE all_company_ids
EnterPc(object_type) == IF object_type = "contacts" THEN "assoc_contacts" ELSE "read_companies"
ChunkPc(object_type) == IF object_type = "contacts" THEN "contacts_chunk" ELSE "companies_chunk"
\* (variant: the association loop runs again after the bulk reads)
ReturnPc_LoopAgain(object_type) ==
    IF object_type = "contacts" THEN "read_companies" ELSE "assoc_contacts"
ReturnPc(object_type) == IF object_type = "contacts" THEN "read_companies" ELSE "rows"

\* batch_read_objects returns m to build_csv_rows
BatchReturn(object_type, m) ==
    /\ IF object_type = "contacts"
       THEN contacts' = m /\ UNCHANGED companies
       ELSE companies' = m /\ UNCHANGED contacts
    /\ unique_ids' = <<>>
    /\ chunk_i' = 0
    /\ result' = EmptyDict
    /\ pc' = ReturnPc(object_type)

\* batch_read_objects up to its first request (the contacts call follows
\* the end of the association loop)
BatchEnter(object_type) ==
    /\ pc = EnterPc(object_type)
    /\ object_type = "contacts" => idx > Len(deals)
    /\ IF IdsOf(object_type) = <<>>
       THEN BatchReturn(object_type, EmptyDict)
       ELSE /\ unique_ids' = Dedup(IdsOf(object_type))
            /\ chunk_i' = 0
            /\ result' = EmptyDict
            /\ pc' = ChunkPc(object_type)
            /\ UNCHANGED <<contacts, companies>>
    /\ idx' = 1
    /\ UNCHANGED <<token, limit, deals, after, owners, contact_ids, all_contact_ids,
                   all_company_ids, deal_to_first_contact, deal_to_first_company,
                   rows, requests, last, error, exit_status, output>>

\* batch_read_objects: one iteration of `for i in range(0, len(unique_ids), chunk_size)`
BatchChunk(object_type) ==
    /\ pc = ChunkPc(object_type)
    /\ chunk_i < Len(unique_ids)
    /\ LET chunk == Chunk(unique_ids, chunk_i)
       IN  \E outcome \in Outcomes, present \in PresentSets(chunk) :
            /\ outcome # "ok" => present = {}
            /\ requests' = Append(requests,
                                  [kind |-> "batch", object_type |-> object_type,
                                   inputs |-> chunk])
            /\ last' = [kind |-> "batch", outcome |-> outcome,
                        results |-> BatchItems(object_type, chunk, present)]
            /\ IF HandleResponse(outcome) # "none"
               THEN /\ Abort(HandleResponse(outcome))
                    /\ UNCHANGED <<unique_ids, chunk_i, result, contacts, companies>>
               ELSE LET merged == MergeItems(result, BatchItems(object_type, chunk, present))
                    IN  /\ UNCHANGED <<error, exit_status>>
                        /\ IF chunk_i + chunk_size < Len(unique_ids)
                           THEN /\ result' = merged
                                /\ chunk_i' = chunk_i + chunk_size
                                /\ UNCHANGED <<pc, unique_ids, contacts, companies>>
                           ELSE BatchReturn(object_type, merged)
    /\ UNCHANGED <<token, limit, deals, after, owners, idx, contact_ids, all_contact_ids,
                   all_company_ids, deal_to_first_contact, deal_to_first_company,
                   rows, output>>

\* ----------------------------------------------------------- RowProjector
\* safe_format_date over the timestamps the server's deals carry, evaluated once
ServerDates ==
    {d.properties.closedate : d \in ServerDeals} \cup {d.properties.createdate : d \in ServerDeals}
FormattedDate == [s \in ServerDates |-> safe_format_date(s)]
FormatDate(s) == IF s \in ServerDates THEN FormattedDate[s] ELSE safe_format_date(s)

NoProps(object_type) ==
    IF object_type = "contacts"
    THEN [firstname |-> None, lastname |-> None, email |-> None]
    ELSE [name |-> None, domain |-> None]

\* (variant: an unresolved contact shows as its raw identifier, as owners do)
customer_name_RawId(contact_id) ==
    LET contact_props == Get(contacts, OrEmpty(contact_id), NoProps("contacts"))
    IN  DisplayName(OrEmpty(contact_props.firstname), OrEmpty(contact_props.lastname),
                    contact_props.email, OrEmpty(contact_id))

\* contact_props = contacts.get(contact_id or "", {}) ... customer_name = ...
customer_name(contact_id) ==
    LET contact_props == Get(contacts, OrEmpty(contact_id), NoProps("contacts"))
    IN  DisplayName(OrEmpty(contact_props.firstname), OrEmpty(contact_props.lastname),
                    contact_props.email, <<>>)

\* company_props = companies.get(company_id or "", {}) ... company_name = ...
company_name(company_id) ==
    LET company_props == Get(companies, OrEmpty(company_id), NoProps("companies"))
    IN  OrEmpty(company_props.name)

\* build_csv_rows, second `for d in deals`: the row of deal d
Row(d, owner_name) ==
    LET props == d.properties
        deal_id == d.id
        contact_id == Get(deal_to_first_contact, deal_id, None)
        company_id == Get(deal_to_first_company, deal_id, None)
    IN  [deal |-> OrEmpty(props.dealname),
         value |-> OrEmpty(props.amount),
         dealstage |-> OrEmpty(props.dealstage),
         dealowner |-> owner_name,
         expiration_date |-> FormatDate(props.closedate),
         created_at_date |-> FormatDate(props.createdate),
         customer_name |-> customer_name(contact_id),
         company_name |-> company_name(company_id)]

\* (variant: a deal without an associated contact gets no row)
AppendRow_OnlyWithContact(rs, d, owner_name) ==
    IF Get(deal_to_first_contact, d.id, None) = None THEN rs
    ELSE Append(rs, Row(d, owner_name))

\* rows.append([...])
AppendRow(rs, d, owner_name) == Append(rs, Row(d, owner_name))

\* build_csv_rows, second `for d in deals`: one iteration
RowStep ==
    /\ pc = "rows"
    /\ idx <= Len(deals)
    /\ \E outcome \in Outcomes, body \in OwnerBodies :
        LET d == deals[idx]
            owner_id == IF Truthy(d.properties.hubspot_owner_id)
                        THEN d.properties.hubspot_owner_id ELSE None
            r == resolve_owner_name(owner_id, owners, outcome, body)
        IN  /\ (~r.called \/ outcome # "ok") => body = CHOOSE b \in OwnerBodies : TRUE
            /\ ~r.called => outcome = "ok"
            /\ IF r.called
               THEN /\ requests' = Append(requests, [kind |-> "owner", owner_id |-> owner_id])
                    /\ last' = [kind |-> "owner", outcome |-> outcome, body |-> body]
               ELSE UNCHANGED <<requests, last>>
            /\ IF r.raises # "none"
               THEN /\ Abort(r.raises)
                    /\ UNCHANGED <<owners, rows, idx>>
               ELSE /\ owners' = r.owners
                    /\ rows' = AppendRow(rows, d, r.name)
                    /\ idx' = idx + 1
                    /\ UNCHANGED <<pc, error, exit_status>>
    /\ UNCHANGED <<token, limit, deals, after, contact_ids, all_contact_ids, all_company_ids,
                   deal_to_first_contact, deal_to_first_company, unique_ids, chunk_i,
                   result, contacts, companies, output>>

\* build_csv_rows returns; main() writes the CSV and ends
WriteCsv ==
    /\ pc = "rows"
    /\ idx > Len(deals)
    /\ output' = [written |-> TRUE, rows |-> rows]
    /\ pc' = "done"
    /\ exit_status' = <<EXIT_OK>>
    /\ UNCHANGED <<token, limit, deals, after, owners, idx, contact_ids, all_contact_ids,
                   all_company_ids, deal_to_first_contact, deal_to_first_company,
                   unique_ids, chunk_i, result, contacts, companies, rows, requests,
                   last, error>>

Next ==
    \/ CheckToken
    \/ SearchBounded
    \/ SearchPage
    \/ OwnerPage
    \/ AssocContacts
    \/ AssocCompanies
    \/ BatchEnter("contacts")
    \/ BatchChunk("contacts")
    \/ BatchEnter("companies")
    \/ BatchChunk("companies")
    \/ RowStep
    \/ WriteCsv

Spec == Init /\ [][Next]_vars

\* ------------------------------------------------- row projection alone
\* build_csv_rows at its second loop, for one deal without owner and
\* associations whose closedate is any of DateInputs
InitDates ==
    /\ pc = "rows"
    /\ token = <<"t">>
    /\ limit = 0
    /\ \E s \in DateInputs : deals = <<DateDeal(s)>>
    /\ after = None
    /\ owners = EmptyDict
    /\ idx = 1
    /\ contact_ids = <<>>
    /\ all_contact_ids = <<>>
    /\ all_company_ids = <<>>
    /\ deal_to_first_contact = Put(EmptyDict, <<"2">>, None)
    /\ deal_to_first_company = Put(EmptyDict, <<"2">>, None)
    /\ unique_ids = <<>>
    /\ chunk_i = 0
    /\ result = EmptyDict
    /\ contacts = EmptyDict
    /\ companies = EmptyDict
    /\ rows = <<>>
    /\ requests = <<[kind |-> "search", limit |-> page_limit, after |-> None],
                    [kind |-> "owners", after |-> None],
                    [kind |-> "assoc", deal_id |-> <<"2">>, to_object |-> "contacts"],
                    [kind |-> "assoc", deal_id |-> <<"2">>, to_object |-> "companies"]>>
    /\ last = [kind |-> "assoc", outcome |-> "ok", results |-> <<>>]
    /\ error = "none"
    /\ exit_status = <<>>
    /\ output = NotWritten

NextDates ==
    \/ RowStep
    \/ WriteCsv

SpecDates == InitDates /\ [][NextDates]_vars

\* ------------------------------------------------------ bulk reads alone
\* build_csv_rows at the end of its association loop, for one deal whose
\* contacts are any of ContactIdLists and companies any of CompanyIdLists
InitBatch ==
    /\ pc = "assoc_contacts"
    /\ token = <<"t">>
    /\ limit = 0
    /\ deals = <<DealC>>
    /\ after = None
    /\ owners = EmptyDict
    /\ idx = 2
    /\ contact_ids = <<>>
    /\ all_contact_ids \in ContactIdLists
    /\ all_company_ids \in CompanyIdLists
    /\ deal_to_first_contact = Put(EmptyDict, DealC.id, First(all_contact_ids))
    /\ deal_to_first_company = Put(EmptyDict, DealC.id, First(all_company_ids))
    /\ unique_ids = <<>>
    /\ chunk_i = 0
    /\ result = EmptyDict
    /\ contacts = EmptyDict
    /\ companies = EmptyDict
    /\ rows = <<>>
    /\ requests = <<[kind |-> "search", limit |-> page_limit, after |-> None],
                    [kind |-> "owners", after |-> None],
                    [kind |-> "assoc", deal_id |-> DealC.id, to_object |-> "contacts"],
                    [kind |-> "assoc", deal_id |-> DealC.id, to_object |-> "companies"]>>
    /\ last = [kind |-> "assoc", outcome |-> "ok",
               results |-> [k \in 1..Len(all_company_ids) |-> [toObjectId |-> all_company_ids[k]]]]
    /\ error = "none"
    /\ exit_status = <<>>
    /\ output = NotWritten

NextBatch ==
    \/ BatchEnter("contacts")
    \/ BatchChunk("contacts")
    \/ BatchEnter("companies")
    \/ BatchChunk("companies")
    \/ RowStep
    \/ WriteCsv

SpecBatch == InitBatch /\ [][NextBatch]_vars

\* ================================================================ claims
Issued == Len(requests') = Len(requests) + 1
Failed(kind) == Issued /\ last'.kind = kind /\ last'.outcome # "ok"
SearchPcs == {"search", "search_all"}
NoCursorShapes == AbsentShapes \cup {"after_null", "after_empty"}
FirstContact(d) == Get(deal_to_first_contact, d.id, None)
FirstCompany(d) == Get(deal_to_first_company, d.id, None)

\* the customer name a contact identifier stands for, by cases on the fields
\* the bulk read returned for it (blank when it returned none)
ExpectedCustomerName(contact_id) ==
    IF contact_id \notin DOMAIN contacts THEN <<>>
    ELSE LET p == contacts[contact_id]
         IN  CASE Truthy(p.firstname) /\ Truthy(p.lastname) -> p.firstname \o <<" ">> \o p.lastname
               [] Truthy(p.firstname) -> p.firstname
               [] Truthy(p.lastname) -> p.lastname
               [] Truthy(p.email) -> p.email
               [] OTHER -> <<>>

\* the phases of main() and build_csv_rows, in program order: the search,
\* the association loop, the bulk reads, the owner lookups of the row loop
PhaseKinds == <<"search", "assoc", "batch", "owner">>
Phase(kind) == CHOOSE p \in 1..Len(PhaseKinds) : PhaseKinds[p] = kind
InPhases(r) == \E p \in 1..Len(PhaseKinds) : PhaseKinds[p] = r.kind

\* the bulk read left the entity out, or gave it without any name field
NoContactName(contact_id) ==
    \/ contact_id \notin DOMAIN contacts
    \/ /\ ~Truthy(contacts[contact_id].firstname)
       /\ ~Truthy(contacts[contact_id].lastname)
       /\ ~Truthy(contacts[contact_id].email)
NoCompanyName(company_id) ==
    \/ company_id \notin DOMAIN companies
    \/ ~Truthy(companies[company_id].name)

\* the association requests issued, in request order
AssocRequests ==
    LET IsAssoc(r) == r.kind = "assoc"
    IN  SelectSeq(requests, IsAssoc)

\* the inputs of the bulk-read requests of one kind, in request order
BatchRequests(object_type) ==
    LET OfKind(r) == r.kind = "batch" /\ r.object_type = object_type
    IN  SelectSeq(requests, OfKind)
BatchInputs(object_type) ==
    Flatten([k \in 1..Len(BatchRequests(object_type)) |-> BatchRequests(object_type)[k].inputs])
FirstIndex(ids, x) == CHOOSE k \in 1..Len(ids) : ids[k] = x /\ \A j \in 1..(k - 1) : ids[j] # x
\* batch_read_objects has returned for the kind
ReadDone(object_type) ==
    IF object_type = "contacts" THEN pc \in {"read_companies", "companies_chunk", "rows", "done"}
    ELSE pc \in {"rows", "done"}

\* the display name of an owner record, by cases on the fields it carries
ExpectedOwnerName(o, owner_id) ==
    CASE Truthy(o.firstName) /\ Truthy(o.lastName) -> o.firstName \o <<" ">> \o o.lastName
      [] Truthy(o.firstName) -> o.firstName
      [] Truthy(o.lastName) -> o.lastName
      [] Truthy(o.email) -> o.email
      [] OTHER -> owner_id

\* C1: whenever build_csv_rows has completed, the number of rows equals the
\* number of fetched deals (and so does the number of rows written), whatever
\* the associations, bulk reads and owner lookups returned.
C1_RowCountEqualsDealCount ==
    /\ (pc = "rows" /\ idx > Len(deals)) => Len(rows) = Len(deals)
    /\ pc = "done" => (Len(rows) = Len(deals) /\ Len(output.rows) = Len(deals))

\* a completed run of two deals: one without associations, one whose first
\* contact the bulk read omitted, and a failed owner fallback lookup
C1_Witness ==
    /\ pc = "done"
    /\ Len(rows) = 2
    /\ \E i \in 1..2 : FirstContact(deals[i]) = None /\ FirstCompany(deals[i]) = None
    /\ \E i \in 1..2 : FirstContact(deals[i]) # None /\ FirstContact(deals[i]) \notin DOMAIN contacts
    /\ last.kind = "owner" /\ last.outcome = "http_error"

\* C2: the deal sequence is the pages' results concatenated in request
\* order, it is never changed afterwards, and each row appended is the row of
\* the deal at the same position; the rows written are those rows.
C2_RowsFollowDealOrder ==
    [][/\ (pc \in SearchPcs /\ Issued /\ last'.outcome = "ok")
            => deals' = deals \o last'.results
       /\ pc \notin SearchPcs => deals' = deals
       /\ rows' # rows =>
            LET i == Len(rows) + 1
            IN  /\ i <= Len(deals)
                /\ Len(rows') = i
                /\ SubSeq(rows', 1, i - 1) = rows
                /\ rows'[i].deal = OrEmpty(deals[i].properties.dealname)
                /\ rows'[i].value = OrEmpty(deals[i].properties.amount)
                /\ rows'[i].dealstage = OrEmpty(deals[i].properties.dealstage)
       /\ output' # output => (output'.rows = rows /\ Len(rows) = Len(deals))]_vars

\* a completed two-page run whose two deals carry the same identifier
C2_Witness ==
    /\ pc = "done"
    /\ Count("search") = 2
    /\ Len(deals) = 2
    /\ deals[1].id = deals[2].id
    /\ output.rows[1].deal # output.rows[2].deal

C4_BoundedSingleRequest ==
    limit > 0 =>
        /\ Count("search") <= 1
        /\ \A k \in 1..Len(requests) :
              requests[k].kind = "search"
                  => requests[k] = [kind |-> "search", limit |-> limit, after |-> None]
        /\ pc \notin {"main", "exited", "search"} => Count("search") = 1

\* a bounded run whose only search response carried a next-page cursor
C4_Witness ==
    /\ limit > 0
    /\ pc = "owner_lookup"
    /\ last.kind = "search"
    /\ last.paging.shape = "after"
    /\ last.results # <<>>

\* C5: a failed association call (non-2xx, non-JSON or transport failure)
\* ends the run at once with the failure status, no rows and nothing written,
\* and an aborted run takes no further step.
C5_AssociationFailureIsFatal ==
    [][/\ Failed("assoc")
            => (pc' = "aborted" /\ exit_status' = <<EXIT_FAILURE>> /\ error' # "none"
                /\ rows' = <<>> /\ ~output'.written)
       /\ (pc = "aborted" /\ last.kind = "assoc") => UNCHANGED vars]_vars

\* the companies call of the second deal fails at transport level
C5_Witness ==
    /\ pc = "aborted"
    /\ last.kind = "assoc"
    /\ last.outcome = "transport"
    /\ idx = 2
    /\ requests[Len(requests)].to_object = "companies"

\* C6: a failed owner fallback lookup (non-2xx, non-JSON or transport
\* failure) does not abort the run: the row of the deal is appended with the
\* raw owner identifier as dealowner.
C6_FallbackFailureTolerated ==
    [][Failed("owner")
          => (/\ pc' # "aborted"
              /\ Len(rows') = Len(rows) + 1
              /\ rows'[Len(rows')].dealowner = requests'[Len(requests')].owner_id)]_vars

\* C7: no owner identifier is looked up through the fallback endpoint more
\* than once in a run.
C7_AtMostOneFallbackPerOwner ==
    \A k1, k2 \in 1..Len(requests) :
        (requests[k1].kind = "owner" /\ requests[k2] = requests[k1]) => k1 = k2

\* C8: the iteration that projects a deal whose first contact (company)
\* identifier is missing from the bulk-read result raises nothing of its own:
\* unless the owner fallback lookup of that iteration fails at transport
\* level, the row is appended, with a blank customer_name (company_name).
C8_AbsentEntityGivesBlank ==
    [][(pc = "rows" /\ idx <= Len(deals)
           /\ ~(Issued /\ last'.outcome = "transport"))
          => LET d == deals[idx]
                 noContact == FirstContact(d) # None /\ FirstContact(d) \notin DOMAIN contacts
                 noCompany == FirstCompany(d) # None /\ FirstCompany(d) \notin DOMAIN companies
             IN  (noContact \/ noCompany)
                    => /\ pc' = "rows" /\ error' = "none"
                       /\ Len(rows') = Len(rows) + 1
                       /\ noContact => rows'[idx].customer_name = <<>>
                       /\ noCompany => rows'[idx].company_name = <<>>]_vars

\* both deals reference contact 6 and company 8, the bulk reads returned
\* contact 5 only and no company
C8_Witness ==
    /\ pc = "done"
    /\ Len(deals) = 2
    /\ \A i \in 1..2 : FirstContact(deals[i]) = <<"6">> /\ FirstCompany(deals[i]) = <<"8">>
    /\ DOMAIN contacts = {<<"5">>}
    /\ DOMAIN companies = {}
    /\ \A i \in 1..2 : output.rows[i].customer_name = <<>> /\ output.rows[i].company_name = <<>>

\* C9: a failed search, association, bulk-read or owner-listing request ends
\* the run at once; an aborted run issues no further request (no retry); a
\* failed request the run survives is an owner fallback lookup.
C9_FailFastExceptFallback ==
    [][/\ (Failed("search") \/ Failed("assoc") \/ Failed("batch") \/ Failed("owners"))
            => (pc' = "aborted" /\ exit_status' = <<EXIT_FAILURE>> /\ ~output'.written)
       /\ pc = "aborted" => requests' = requests
       /\ (Issued /\ last'.outcome # "ok" /\ pc' # "aborted") => last'.kind = "owner"]_vars

\* the companies bulk read answers with a non-2xx status and the run ends
C9_Witness ==
    /\ pc = "aborted"
    /\ last.kind = "batch"
    /\ last.outcome = "http_error"
    /\ requests[Len(requests)].object_type = "companies"

\* C10: without a token the run issues no request and ends with the
\* configuration status; that status is given for no other reason and
\* differs from the status of an aborted run.
C10_MissingCredential ==
    /\ ~Truthy(token) =>
          /\ requests = <<>>
          /\ pc \in {"main", "exited"}
          /\ pc = "exited" => exit_status = <<EXIT_CONFIG>>
    /\ exit_status = <<EXIT_CONFIG>> => (~Truthy(token) /\ pc = "exited")
    /\ pc = "aborted" => (exit_status = <<EXIT_FAILURE>> /\ exit_status # <<EXIT_CONFIG>>)

\* the run ended on an empty token
C10_Witness ==
    /\ pc = "exited"
    /\ token = <<>>
    /\ exit_status = <<EXIT_CONFIG>>
    /\ requests = <<>>

\* C11: the cap alone selects the retrieval.  A positive cap runs the single
\* request (limit = cap, over after one response whatever its paging); a cap
\* of 0 (the default) or below runs the cursor-driven retrieval (every
\* request with page size 100, continuing while responses carry a cursor).
\* Exactly one of the two runs: the owner listing starts only after a search
\* request, and all search requests of a run are of the selected kind.
C11_CapSelectsMode ==
    [][/\ (pc = "main" /\ pc' \notin {"main", "exited"})
            => pc' = (IF limit > 0 THEN "search" ELSE "search_all")
       /\ (Issued /\ requests'[Len(requests')].kind = "search")
            => /\ pc = (IF limit > 0 THEN "search" ELSE "search_all")
               /\ requests'[Len(requests')].limit = (IF limit > 0 THEN limit ELSE page_limit)
       /\ pc = "search" => (Issued /\ pc' \in {"owner_lookup", "aborted"})
       /\ (pc = "search_all" /\ Issued /\ last'.outcome = "ok" /\ last'.paging.shape = "after")
            => pc' = "search_all"
       /\ (pc \in SearchPcs /\ pc' = "owner_lookup") => Count("search")' >= 1
       /\ limit' = limit]_vars

\* a negative cap: the cursor-driven retrieval fetched two pages of 100
C11_Witness ==
    /\ limit < 0
    /\ pc = "owner_lookup"
    /\ Count("search") = 2
    /\ \A k \in 1..2 : requests[k].limit = page_limit
    /\ Len(deals) = 2

\* C12: the message a fatal API error ends the run with never contains the
\* token, whatever non-2xx response (status code, body) the server gave to
\* the failed request; the token is in neither the URL nor the JSON body of
\* any request issued, only in the Authorization header of the session.
C12_MessageWithoutToken ==
    /\ \A m \in ExitMessages : ~Contains(m, token)
    /\ \A k \in 1..Len(requests) :
          /\ ~Contains(RequestUrl(requests[k]), token)
          /\ ~Contains(RequestJson(requests[k]), token)
    /\ requests # <<>> => Contains(SessionHeaders(token).Authorization, token)

\* the second owner-listing request, whose URL carries a cursor, was answered
\* with a non-2xx status and the run ended on the SystemExit
C12_Witness ==
    /\ pc = "aborted"
    /\ error = "SystemExit"
    /\ last.kind = "owners"
    /\ last.outcome = "http_error"
    /\ requests[Len(requests)].after # None
    /\ Cardinality(ExitMessages) = 2
    /\ Truthy(token)

\* C13: the row of a deal without an associated contact and company has a
\* blank customer_name and company_name, and its deal, value, dealstage and
\* both dates are those of the deal, as for any other deal; and recording the
\* association results of one deal leaves the first contact and the first
\* company recorded for every deal before it as they were.
C13_RowsIndependentOfOtherDeals ==
    [][/\ (pc = "rows" /\ rows' # rows)
            => LET d == deals[idx]
                   row == rows'[Len(rows')]
               IN  /\ row.deal = OrEmpty(d.properties.dealname)
                   /\ row.value = OrEmpty(d.properties.amount)
                   /\ row.dealstage = OrEmpty(d.properties.dealstage)
                   /\ row.expiration_date = safe_format_date(d.properties.closedate)
                   /\ row.created_at_date = safe_format_date(d.properties.createdate)
                   /\ FirstContact(d) = None => row.customer_name = <<>>
                   /\ FirstCompany(d) = None => row.company_name = <<>>
       /\ (pc = "assoc_companies" /\ pc' = "assoc_contacts")
            => \A j \in 1..(idx - 1) :
                  /\ FirstContact(deals[j])' = FirstContact(deals[j])
                  /\ FirstCompany(deals[j])' = FirstCompany(deals[j])]_vars

\* C14: every owner listing entry is registered under its identifier with
\* 'first last' (trimmed: the name alone when only one is given), else its
\* email, else its identifier, unless a later entry of the same page takes
\* that key; and a successful fallback lookup names, memoizes and shows the
\* owner by the same rule.
C14_OwnerNamePrecedence ==
    [][/\ (pc = "owner_lookup" /\ Issued /\ last'.outcome = "ok" /\ pc' # "aborted")
            => \A i \in 1..Len(last'.results) :
                  LET item == last'.results[i]
                  IN  (\A j \in (i + 1)..Len(last'.results) :
                          /\ last'.results[j].id # item.id
                          /\ last'.results[j].ownerId # item.id)
                        => owners'[item.id] = ExpectedOwnerName(item, item.id)
       /\ (pc = "rows" /\ Issued /\ last'.kind = "owner" /\ last'.outcome = "ok")
            => LET owner_id == requests'[Len(requests')].owner_id
                   name == ExpectedOwnerName(last'.body, owner_id)
               IN  /\ owners'[owner_id] = name
                   /\ rows'[Len(rows')].dealowner = name]_vars

\* the listing registered an owner without name and email under its
\* identifier and one with an email only under that email
C14_Witness ==
    /\ pc = "assoc_contacts"
    /\ last.kind = "owners"
    /\ Len(last.results) = 2
    /\ owners[<<"9">>] = <<"9">>
    /\ owners[<<"4">>] = <<"m">>

\* C15: safe_format_date raises nothing and has three outcomes only: ""
\* for a missing or empty value; the zero-padded calendar date (YYYY-MM-DD) for
\* a timestamp of either accepted form that names a day of the calendar; the
\* input itself, unchanged, for any other text.
C15_DateOrUnchanged ==
    /\ pc # "aborted"
    /\ rows # <<>> =>
          \A c \in DateCases :
              deals[1].properties.closedate = c.text => rows[1].expiration_date = c.date

\* a timestamp with sub-second digits, one-digit month and blank-padded day
\* was rendered as its date
C15_Witness ==
    /\ pc = "done"
    /\ Len(deals[1].properties.closedate) > 20
    /\ \E k \in 1..Len(deals[1].properties.closedate) : deals[1].properties.closedate[k] = "."
    /\ output.rows[1].expiration_date = <<"2", "0", "2", "4", "-", "0", "2", "-", "0", "3">>
    /\ output.rows[1].expiration_date # SubSeq(deals[1].properties.closedate, 1, 10)

\* C16: every request of the cursor-driven retrieval has page size 100; the
\* first carries no continuation token; each later one follows a successful
\* search response that carried a cursor and carries exactly that cursor,
\* which no earlier request of the run carried.
C16_CursorOfPrecedingResponse ==
    [][(pc = "search_all" /\ Issued)
          => LET r == requests'[Len(requests')]
             IN  /\ r.kind = "search"
                 /\ r.limit = page_limit
                 /\ Count("search") = 0 => r.after = None
                 /\ Count("search") > 0 =>
                       /\ last.kind = "search" /\ last.outcome = "ok"
                       /\ last.paging.shape = "after"
                       /\ r.after = last.paging.after
                       /\ \A k \in 1..Len(requests) : requests[k].after # r.after]_vars

\* three pages: the second request carried the cursor of the first response,
\* the third that of the second
C16_Witness ==
    /\ limit = 0
    /\ Count("search") = 3
    /\ requests[1].after = None
    /\ requests[2].after = SearchCursors[1]
    /\ requests[3].after = SearchCursors[2]
    /\ pc = "owner_lookup"

\* C17: no bulk-read request lists an empty identifier among its inputs.
C17_NoEmptyIdentifierRequested ==
    \A k \in 1..Len(requests) :
        requests[k].kind = "batch"
            => \A i \in 1..Len(requests[k].inputs) : Truthy(requests[k].inputs[i])

\* C18: for each entity kind, the inputs of all its bulk-read requests
\* together list no identifier twice, list collected identifiers only, in the
\* order of their first occurrence in the collected list, and once the read
\* has returned they list every collected identifier.
C18_RequestedOnceInFirstOccurrenceOrder ==
    \A object_type \in {"contacts", "companies"} :
        LET req == BatchInputs(object_type)
            ids == IdsOf(object_type)
        IN  /\ \A i, j \in 1..Len(req) : req[i] = req[j] => i = j
            /\ \A i \in 1..Len(req) : \E k \in 1..Len(ids) : ids[k] = req[i]
            /\ \A i, j \in 1..Len(req) :
                  i < j => FirstIndex(ids, req[i]) < FirstIndex(ids, req[j])
            /\ ReadDone(object_type) => \A k \in 1..Len(ids) : \E i \in 1..Len(req) : req[i] = ids[k]

\* two deals with different identifiers reference the same two contacts and
\* the same company; each identifier was requested once
C18_Witness ==
    /\ pc = "done"
    /\ Len(deals) = 2
    /\ deals[1].id # deals[2].id
    /\ all_contact_ids = <<<<"6">>, <<"5">>, <<"6">>, <<"5">>>>
    /\ all_company_ids = <<<<"8">>, <<"8">>>>
    /\ BatchInputs("contacts") = <<<<"6">>, <<"5">>>>
    /\ BatchInputs("companies") = <<<<"8">>>>

\* C19: once batch_read_objects has returned for a kind with u unique
\* identifiers collected, it has issued ceil(u/100) requests, each with at
\* most 100 inputs and all but the last with exactly 100, and their inputs
\* concatenated in request order are the deduplicated list.
C19_ChunksOfHundred ==
    \A object_type \in {"contacts", "companies"} :
        ReadDone(object_type) =>
            LET reqs == BatchRequests(object_type)
                ids == IdsOf(object_type)
                u == Cardinality({ids[k] : k \in 1..Len(ids)})
            IN  /\ Len(reqs) = (u + 99) \div 100
                /\ \A k \in 1..Len(reqs) : Len(reqs[k].inputs) <= 100
                /\ \A k \in 1..(Len(reqs) - 1) : Len(reqs[k].inputs) = 100
                /\ Flatten([k \in 1..Len(reqs) |-> reqs[k].inputs]) = Dedup(ids)

\* 300 collected contact identifiers, 250 of them unique, were read with
\* requests of 100, 100 and 50 inputs, and no company was read
C19_Witness ==
    /\ pc = "done"
    /\ Len(all_contact_ids) = 300
    /\ Len(BatchRequests("contacts")) = 3
    /\ Len(BatchRequests("contacts")[1].inputs) = 100
    /\ Len(BatchRequests("contacts")[2].inputs) = 100
    /\ Len(BatchRequests("contacts")[3].inputs) = 50
    /\ all_company_ids = <<>>
    /\ BatchRequests("companies") = <<>>

\* C20: an identifier in the owner cache stays in it with the same name: no
\* step of the run removes a key of the cache or changes the name it maps to.
C20_CacheEntriesAreStable ==
    [][\A k \in DOMAIN owners : k \in DOMAIN owners' /\ owners'[k] = owners[k]]_vars

\* C21: the iteration that projects a deal whose owner identifier is in the
\* cache appends the row with the cached name as dealowner, issues no request
\* and leaves the cache as it is; the iteration for a deal without an owner
\* identifier appends the row with an empty dealowner and issues no request.
C21_CachedOrMissingOwnerNoCall ==
    [][(pc = "rows" /\ idx <= Len(deals))
          => LET owner_id == deals[idx].properties.hubspot_owner_id
             IN  /\ (Truthy(owner_id) /\ owner_id \in DOMAIN owners)
                      => /\ requests' = requests
                         /\ owners' = owners
                         /\ Len(rows') = Len(rows) + 1
                         /\ rows'[Len(rows')].dealowner = owners[owner_id]
                 /\ ~Truthy(owner_id)
                      => /\ requests' = requests
                         /\ owners' = owners
                         /\ Len(rows') = Len(rows) + 1
                         /\ rows'[Len(rows')].dealowner = <<>>]_vars

\* a completed run of a deal whose owner was listed and a deal without
\* owner: no fallback lookup was issued
C21_Witness ==
    /\ pc = "done"
    /\ Len(deals) = 2
    /\ deals[1].properties.hubspot_owner_id \in DOMAIN owners
    /\ deals[2].properties.hubspot_owner_id = None
    /\ output.rows[1].dealowner = owners[deals[1].properties.hubspot_owner_id]
    /\ output.rows[2].dealowner = <<>>
    /\ Count("owner") = 0

\* C22: when the owner listing ends, every entry of its last page that
\* exposes a legacy identifier has both its primary and its legacy identifier
\* in the cache, each mapped to the display name derived from that entry.
C22_AliasSharesName ==
    [][(pc = "owner_lookup" /\ pc' = "assoc_contacts")
          => \A i \in 1..Len(last'.results) :
                LET item == last'.results[i]
                IN  Truthy(item.ownerId)
                      => /\ item.id \in DOMAIN owners'
                         /\ item.ownerId \in DOMAIN owners'
                         /\ owners'[item.id] = ExpectedOwnerName(item, item.id)
                         /\ owners'[item.ownerId] = ExpectedOwnerName(item, item.id)]_vars

\* C23: the contact recorded for a deal is the first identifier of the
\* association list returned for it (none for an empty list); it is still
\* the one recorded when the deal's row is projected; and the row's
\* customer_name is the name that identifier stands for ('first last', else
\* email, else blank), blank when the bulk read returned nothing for it,
\* whatever the other contacts of the list are.
C23_FirstContactOnly ==
    [][/\ (pc = "assoc_companies" /\ pc' = "assoc_contacts")
            => /\ Get(deal_to_first_contact', deals[idx].id, None)
                     = (IF contact_ids = <<>> THEN None ELSE contact_ids[1])
               /\ \A j \in 1..(idx - 1) :
                     Get(deal_to_first_contact', deals[j].id, None) = FirstContact(deals[j])
       /\ pc \notin {"assoc_contacts", "assoc_companies"}
            => deal_to_first_contact' = deal_to_first_contact
       /\ (pc = "rows" /\ rows' # rows)
            => rows'[Len(rows')].customer_name =
                 (IF FirstContact(deals[idx]) = None THEN <<>>
                  ELSE ExpectedCustomerName(FirstContact(deals[idx])))]_vars

\* C24: once the association loop is over (and so in every completed run)
\* the association requests issued are, in order, those of the fetched deals
\* in deal order, two per deal: its contacts, then its companies.
C24_TwoAssociationRequestsPerDeal ==
    (pc \in {"contacts_chunk", "read_companies", "companies_chunk", "rows", "done"}
        \/ (pc = "assoc_contacts" /\ idx > Len(deals)))
      => /\ Len(AssocRequests) = 2 * Len(deals)
         /\ \A i \in 1..Len(deals) :
               /\ AssocRequests[2 * i - 1]
                     = [kind |-> "assoc", deal_id |-> deals[i].id, to_object |-> "contacts"]
               /\ AssocRequests[2 * i]
                     = [kind |-> "assoc", deal_id |-> deals[i].id, to_object |-> "companies"]

\* a completed run of two deals with different identifiers: four
\* association requests
C24_Witness ==
    /\ pc = "done"
    /\ Len(deals) = 2
    /\ deals[1].id # deals[2].id
    /\ Len(AssocRequests) = 4
    /\ AssocRequests[3].deal_id = deals[2].id
    /\ AssocRequests[3].to_object = "contacts"

\* C25: the network calls happen in phases that never interleave: of two
\* requests among searches, association requests, bulk reads and owner
\* fallback lookups, the later one never belongs to an earlier phase.
C25_PhasesNeverInterleave ==
    \A i, j \in 1..Len(requests) :
        (i < j /\ InPhases(requests[i]) /\ InPhases(requests[j]))
          => Phase(requests[i].kind) <= Phase(requests[j].kind)

\* a completed run that went through all four phases, with two searches,
\* four association requests and bulk reads of both kinds
C25_Witness ==
    /\ pc = "done"
    /\ Count("search") = 2
    /\ Count("assoc") = 4
    /\ Len(BatchRequests("contacts")) >= 1
    /\ Len(BatchRequests("companies")) >= 1
    /\ Count("owner") >= 1

\* C26: a record whose association list is not empty has the list's first
\* identifier recorded and keeps it while the later records are processed;
\* once the bulk read of a kind has returned, every recorded first identifier
\* is among the identifiers its requests carried; and the row of a deal with
\* a recorded contact (company) has a blank customer_name (company_name)
\* only if the bulk read left that entity out or gave it without names.
C26_AssociatedDealBlankOnlyIfUnread ==
    [][/\ (pc = "assoc_companies" /\ pc' = "assoc_contacts")
            => /\ contact_ids # <<>>
                    => Get(deal_to_first_contact', deals[idx].id, None) = contact_ids[1]
               /\ AssociationIds(last'.results) # <<>>
                    => Get(deal_to_first_company', deals[idx].id, None)
                         = AssociationIds(last'.results)[1]
               /\ \A j \in 1..(idx - 1) :
                     /\ FirstContact(deals[j]) # None
                          => FirstContact(deals[j])' = FirstContact(deals[j])
                     /\ FirstCompany(deals[j]) # None
                          => FirstCompany(deals[j])' = FirstCompany(deals[j])
       /\ ReadDone("contacts")'
            => \A i \in 1..Len(deals) :
                  FirstContact(deals[i])' # None
                    => \E k \in 1..Len(BatchInputs("contacts")') :
                          BatchInputs("contacts")'[k] = FirstContact(deals[i])'
       /\ ReadDone("companies")'
            => \A i \in 1..Len(deals) :
                  FirstCompany(deals[i])' # None
                    => \E k \in 1..Len(BatchInputs("companies")') :
                          BatchInputs("companies")'[k] = FirstCompany(deals[i])'
       /\ (pc = "rows" /\ rows' # rows)
            => LET row == rows'[Len(rows')]
                   contact_id == FirstContact(deals[idx])
                   company_id == FirstCompany(deals[idx])
               IN  /\ (contact_id # None /\ row.customer_name = <<>>)
                        => NoContactName(contact_id)
                   /\ (company_id # None /\ row.company_name = <<>>)
                        => NoCompanyName(company_id)]_vars

====
